---- MODULE Spec2Model ----
(***************************************************************************)
(* Weather app: the Express gateway (backend/server.js) and the React       *)
(* presenter (frontend/src/App.jsx and its components).                    *)
(*                                                                         *)
(* Gateway: each HTTP request is a handler that runs synchronously up to   *)
(* its next `await axios.get(...)`; the upstream services (geocoding and   *)
(* forecast) are the environment and answer each call with any of the      *)
(* outcomes axios can produce.                                             *)
(*                                                                         *)
(* Presenter: the App component's state, the search form's input and the   *)
(* fetches in flight; each event handler and each continuation after an    *)
(* `await axios.get(...)` is one step.  Fetch f of the presenter travels   *)
(* as gateway request f.                                                   *)
(***************************************************************************)
EXTENDS Integers, Sequences, FiniteSets, TLC

VARIABLES
    requests,    \* per request slot: the handler's position and local variables
    calls,       \* per request slot: the axios.get calls the handler has issued
    replies,     \* per request slot: the upstream answers the handler has received
    responses,   \* per request slot: the HTTP responses sent (res.json)
    tempInput,   \* presenter: the arguments convertTemp is applied to
    tempOutput,  \* presenter: the values convertTemp has returned
    weather,         \* App state: the last response body stored, or null
    location,        \* App state: the location of that body, or null
    loading,         \* App state: the loading flag
    error,           \* App state: the error message, or null
    temperatureUnit, \* App state: "F" or "C"
    searchTerm,      \* WeatherSearch state: the text of the input
    geolocation,     \* the mount effect and its getCurrentPosition request
    fetches          \* the axios.get calls of the presenter, in issue order

gatewayVars == <<requests, calls, replies, responses>>
appVars ==
    <<weather, location, loading, error, temperatureUnit, searchTerm,
      geolocation, fetches>>
presenterVars == <<tempInput, tempOutput, appVars>>
vars == <<requests, calls, replies, responses, tempInput, tempOutput,
          weather, location, loading, error, temperatureUnit, searchTerm,
          geolocation, fetches>>

----------------------------------------------------------------------------
(* Bounds of the model *)

\* number of request slots (concurrent gateway requests)
MaxReq == 3
\* longest query-parameter string enumerated over Alphabet
MaxParamLen == 2
\* weather codes range over -CodeMargin .. 99 + CodeMargin
CodeMargin == 3
\* Fahrenheit inputs of convertTemp range over -TempSpan .. TempSpan
TempSpan == 150
\* number of fetches the presenter issues
MaxFetch == 2
\* longest text typed into the search input
MaxTermLen == 2

Reqs == 1..MaxReq

----------------------------------------------------------------------------
(* JavaScript values *)

\* A JS string that the code parses is a sequence of one-character strings;
\* strings that are only copied or concatenated are TLA+ strings.
Digits == {"0", "1", "2", "3", "4", "5", "6", "7", "8", "9"}
DigitVal == [c \in Digits |->
               CASE c = "0" -> 0 [] c = "1" -> 1 [] c = "2" -> 2 [] c = "3" -> 3
                 [] c = "4" -> 4 [] c = "5" -> 5 [] c = "6" -> 6 [] c = "7" -> 7
                 [] c = "8" -> 8 [] c = "9" -> 9]
WhiteSpace == {" "}

\* A JS number with a finite decimal expansion: m * 10^(-e), e minimal.
RECURSIVE Normalize(_, _)
Normalize(m, e) ==
    IF m = 0 THEN [t |-> "number", m |-> 0, e |-> 0]
    ELSE IF e > 0 /\ m % 10 = 0 THEN Normalize(m \div 10, e - 1)
    ELSE [t |-> "number", m |-> m, e |-> e]
NaN == [t |-> "NaN"]
JsonNull == [t |-> "null"]
undefined == [t |-> "undefined"]

\* JSON.stringify, as applied by res.json: NaN is written as null.
ToJSON(v) == IF v.t = "NaN" THEN JsonNull ELSE v

\* JS truthiness of a string: the empty string is falsy.
TruthyString(s) == Len(s) > 0

\* Number of consecutive characters of s, from position i on, that are in set cs.
RECURSIVE Run(_, _, _)
Run(s, i, cs) == IF i <= Len(s) /\ s[i] \in cs THEN 1 + Run(s, i + 1, cs) ELSE 0

\* Value of the n decimal digits of s that start at position i.
RECURSIVE DigitsValue(_, _, _)
DigitsValue(s, i, n) ==
    IF n = 0 THEN 0 ELSE DigitsValue(s, i, n - 1) * 10 + DigitVal[s[i + n - 1]]

\* The longest prefix of s (after leading white space) that is a decimal
\* literal: [+-] digits [. digits] | [+-] . digits.  Gives the positions and
\* lengths of the parts and the position after the literal.  (Exponents and
\* "Infinity" are not part of the enumerated alphabet and are not parsed.)
DecimalPrefix(s) ==
    LET start == 1 + Run(s, 1, WhiteSpace)
        signed == start <= Len(s) /\ s[start] \in {"+", "-"}
        ipos == IF signed THEN start + 1 ELSE start
        ilen == Run(s, ipos, Digits)
        dot == ipos + ilen <= Len(s) /\ s[ipos + ilen] = "."
        fpos == ipos + ilen + 1
        flen == IF dot THEN Run(s, fpos, Digits) ELSE 0
    IN  [valid |-> ilen + flen > 0,
         negative |-> signed /\ s[start] = "-",
         ipos |-> ipos, ilen |-> ilen, fpos |-> fpos, flen |-> flen,
         end |-> IF dot THEN fpos + flen ELSE ipos + ilen]

\* The number a decimal prefix denotes.
PrefixValue(s, p) ==
    LET mag == DigitsValue(s, p.ipos, p.ilen) * (10 ^ p.flen)
                 + DigitsValue(s, p.fpos, p.flen)
    IN  Normalize(IF p.negative THEN 0 - mag ELSE mag, p.flen)

\* The built-in parseFloat: the value of the longest numeric prefix, NaN if none.
parseFloat(s) ==
    LET p == DecimalPrefix(s)
    IN  IF p.valid THEN PrefixValue(s, p) ELSE NaN

\* The message of the TypeError thrown on reading a property of undefined.
TypeErrorMessage(prop) ==
    "Cannot read properties of undefined (reading '" \o prop \o "')"

----------------------------------------------------------------------------
(* Gateway: weather-code classifier *)

\* The object literal weatherCodes of getWeatherDescription.
\* A plausible slip: the table completed with the two freezing-rain codes.
weatherCodesWithFreezingRain ==
    (0 :> "Clear sky") @@ (1 :> "Mainly clear") @@ (2 :> "Partly cloudy")
    @@ (3 :> "Overcast") @@ (45 :> "Foggy") @@ (48 :> "Foggy with rime")
    @@ (51 :> "Light drizzle") @@ (53 :> "Moderate drizzle")
    @@ (55 :> "Dense drizzle") @@ (61 :> "Slight rain")
    @@ (63 :> "Moderate rain") @@ (65 :> "Heavy rain")
    @@ (66 :> "Light freezing rain") @@ (67 :> "Heavy freezing rain")
    @@ (71 :> "Slight snow")
    @@ (73 :> "Moderate snow") @@ (75 :> "Heavy snow")
    @@ (80 :> "Slight rain showers") @@ (81 :> "Moderate rain showers")
    @@ (82 :> "Violent rain showers") @@ (85 :> "Slight snow showers")
    @@ (86 :> "Heavy snow showers") @@ (95 :> "Thunderstorm")
    @@ (96 :> "Thunderstorm with slight hail")
    @@ (99 :> "Thunderstorm with heavy hail")

\* The table of getWeatherDescription.
weatherCodes ==
    (0 :> "Clear sky") @@ (1 :> "Mainly clear") @@ (2 :> "Partly cloudy")
    @@ (3 :> "Overcast") @@ (45 :> "Foggy") @@ (48 :> "Foggy with rime")
    @@ (51 :> "Light drizzle") @@ (53 :> "Moderate drizzle")
    @@ (55 :> "Dense drizzle") @@ (61 :> "Slight rain")
    @@ (63 :> "Moderate rain") @@ (65 :> "Heavy rain") @@ (71 :> "Slight snow")
    @@ (73 :> "Moderate snow") @@ (75 :> "Heavy snow")
    @@ (80 :> "Slight rain showers") @@ (81 :> "Moderate rain showers")
    @@ (82 :> "Violent rain showers") @@ (85 :> "Slight snow showers")
    @@ (86 :> "Heavy snow showers") @@ (95 :> "Thunderstorm")
    @@ (96 :> "Thunderstorm with slight hail")
    @@ (99 :> "Thunderstorm with heavy hail")

\* A plausible slip: the description of the nearest known code at or below
\* the given one (range matching, as the presenter's icon selector does).
getWeatherDescriptionRange(code) ==
    LET below == {k \in DOMAIN weatherCodes : k <= code}
    IN  IF below = {} THEN "Unknown"
        ELSE weatherCodes[CHOOSE k \in below : \A j \in below : j <= k]

\* weatherCodes[code] || 'Unknown': a missing key reads as undefined, and
\* undefined and the empty string are falsy.
getWeatherDescription(code) ==
    IF code \in DOMAIN weatherCodes /\ weatherCodes[code] # ""
    THEN weatherCodes[code]
    ELSE "Unknown"

----------------------------------------------------------------------------
(* Gateway: responses *)

\* res.json(body) answers with status 200 unless res.status(n) was called.
\* A plausible slip: the health answer made to depend on the other requests.
HealthResponseDegraded ==
    IF \E r \in Reqs : \E i \in DOMAIN responses[r] : responses[r][i].status = 500
    THEN [status |-> 503, body |-> [status |-> "DOWN", message |-> "Upstream failing"]]
    ELSE [status |-> 200, body |-> [status |-> "OK", message |-> "Weather API is running"]]

\* app.get('/api/health')

HealthResponse ==
    [status |-> 200, body |-> [status |-> "OK", message |-> "Weather API is running"]]

MissingParamsResponse ==
    [status |-> 400, body |-> [error |-> "Missing latitude or longitude parameters"]]

NotFoundResponse ==
    [status |-> 404, body |-> [error |-> "City not found"]]

\* A plausible slip: the message is put where the fixed error text belongs.
ErrorResponseNoDetails(message) ==
    [status |-> 500, body |-> [error |-> message]]

\* The catch block of both weather handlers.
ErrorResponse(message) ==
    [status |-> 500,
     body |-> [error |-> "Failed to fetch weather data", details |-> message]]

\* A plausible slip: humidity copied from the line above it.
CurrentWeatherCopyPaste(weatherData) ==
    [temperature |-> weatherData.current.temperature_2m,
     apparent_temperature |-> weatherData.current.apparent_temperature,
     humidity |-> weatherData.current.apparent_temperature,
     precipitation |-> weatherData.current.precipitation,
     weather_code |-> weatherData.current.weather_code,
     wind_speed |-> weatherData.current.wind_speed_10m,
     description |-> getWeatherDescription(weatherData.current.weather_code)]

\* The current_weather object both handlers build.
CurrentWeather(weatherData) ==
    [temperature |-> weatherData.current.temperature_2m,
     apparent_temperature |-> weatherData.current.apparent_temperature,
     humidity |-> weatherData.current.relative_humidity_2m,
     precipitation |-> weatherData.current.precipitation,
     weather_code |-> weatherData.current.weather_code,
     wind_speed |-> weatherData.current.wind_speed_10m,
     description |-> getWeatherDescription(weatherData.current.weather_code)]

\* weatherData.timezone; a payload without the field reads as undefined,
\* which JSON.stringify leaves out of the object.
WithTimezone(loc, weatherData) ==
    IF "timezone" \in DOMAIN weatherData
    THEN loc @@ [timezone |-> weatherData.timezone]
    ELSE loc

\* The body of the coordinate handler's success answer.
CoordsBody(latitude, longitude, weatherData) ==
    [success |-> TRUE,
     location |-> WithTimezone([latitude |-> ToJSON(parseFloat(latitude)),
                                longitude |-> ToJSON(parseFloat(longitude))],
                               weatherData),
     current_weather |-> CurrentWeather(weatherData)]

\* cityData.admin1 ? ... : '' : a missing or empty field is falsy.
TruthyField(obj, field) == field \in DOMAIN obj /\ obj[field] # ""

\* A plausible slip: the separators are always written.
DisplayNameAlwaysSeparated(cityData) ==
    cityData.name
      \o ", " \o (IF TruthyField(cityData, "admin1") THEN cityData.admin1 ELSE "")
      \o ", " \o (IF TruthyField(cityData, "country") THEN cityData.country ELSE "")

\* The template literal that builds location.name.
DisplayName(cityData) ==
    cityData.name
      \o (IF TruthyField(cityData, "admin1") THEN ", " \o cityData.admin1 ELSE "")
      \o (IF TruthyField(cityData, "country") THEN ", " \o cityData.country ELSE "")

\* The body of the city handler's success answer.
CityBody(cityData, weatherData) ==
    [success |-> TRUE,
     location |-> WithTimezone([name |-> DisplayName(cityData),
                                latitude |-> cityData.latitude,
                                longitude |-> cityData.longitude],
                               weatherData),
     current_weather |-> CurrentWeather(weatherData)]

\* The params object of both forecast calls.
ForecastCall(latitude, longitude) ==
    [url |-> "https://api.open-meteo.com/v1/forecast",
     params |-> [latitude |-> latitude,
                 longitude |-> longitude,
                 current |-> "temperature_2m,relative_humidity_2m,apparent_temperature,precipitation,weather_code,wind_speed_10m",
                 temperature_unit |-> "fahrenheit",
                 wind_speed_unit |-> "mph",
                 timezone |-> "auto"]]

\* The geocoding call of the city handler.
GeocodingCall(city) ==
    [url |-> "https://geocoding-api.open-meteo.com/v1/search",
     params |-> [name |-> city, count |-> 1, language |-> "en", format |-> "json"]]

\* A plausible slip: the test made on the parsed numbers, where 0 and NaN
\* are falsy.
MissingParamsZeroIsFalsy(query) ==
    LET falsy(p) == \/ p \notin DOMAIN query
                    \/ parseFloat(query[p]).t = "NaN"
                    \/ parseFloat(query[p]).m = 0
    IN  falsy("latitude") \/ falsy("longitude")

\* A plausible slip: only an absent parameter counts as missing.
MissingParamsUndefinedOnly(query) ==
    "latitude" \notin DOMAIN query \/ "longitude" \notin DOMAIN query

\* !latitude || !longitude, on the destructured req.query.
MissingParams(query) ==
    \/ ~("latitude" \in DOMAIN query /\ TruthyString(query.latitude))
    \/ ~("longitude" \in DOMAIN query /\ TruthyString(query.longitude))

\* A plausible slip: only a missing results field counts as no match.
CityNotFoundMissingOnly(data) ==
    "results" \notin DOMAIN data

\* !geoResponse.data.results || geoResponse.data.results.length === 0
CityNotFound(data) ==
    "results" \notin DOMAIN data \/ Len(data.results) = 0

\* A plausible slip: the last result instead of the first.
LastResult(results) == results[Len(results)]

\* geoResponse.data.results[0]
FirstResult(results) == results[1]

----------------------------------------------------------------------------
(* Environment: what clients send and what the upstream services answer *)

\* Characters of the enumerated query-parameter strings.
Alphabet == {"7", "0", "-", ".", "a"}

RECURSIVE StringsOfLen(_)
StringsOfLen(n) ==
    IF n = 0 THEN {<<>>}
    ELSE {Append(s, c) : s \in StringsOfLen(n - 1), c \in Alphabet}

\* "37.7749" and "-122.4194", the coordinates the tests and the presenter send.
DefaultLatitude == <<"3", "7", ".", "7", "7", "4", "9">>
DefaultLongitude == <<"-", "1", "2", "2", ".", "4", "1", "9", "4">>

\* "91" and "-181": a latitude and a longitude outside the valid ranges.
OutOfRangeLatitude == <<"9", "1">>
OutOfRangeLongitude == <<"-", "1", "8", "1">>

ParamStrings ==
    UNION {StringsOfLen(n) : n \in 0..MaxParamLen}
      \cup {DefaultLatitude, DefaultLongitude}
      \cup {OutOfRangeLatitude, OutOfRangeLongitude}

\* req.query objects: each of latitude and longitude absent or a string of S.
Queries(S) ==
    {<<>>}
      \cup {[latitude |-> a] : a \in S}
      \cup {[longitude |-> b] : b \in S}
      \cup {[latitude |-> a, longitude |-> b] : a \in S, b \in S}

AllQueries == Queries(ParamStrings)

FewQueries ==
    {<<>>, [longitude |-> DefaultLongitude],
     [latitude |-> DefaultLatitude, longitude |-> DefaultLongitude]}

\* axios.get rejects: no answer at all, or an answer with a non-2xx status.
Rejections ==
    {[kind |-> "rejected", cause |-> "network", message |-> "Network Error"],
     [kind |-> "rejected", cause |-> "status",
      message |-> "Request failed with status code 404"]}

\* A forecast payload, shaped as the tests' mock is.
Forecast(tz, temp, code) ==
    [timezone |-> tz,
     current |-> [temperature_2m |-> temp,
                  apparent_temperature |-> temp - 2,
                  relative_humidity_2m |-> 65,
                  precipitation |-> 0,
                  weather_code |-> code,
                  wind_speed_10m |-> 5]]

\* A 2xx answer whose payload has no `current` object.
NoCurrent == [error |-> TRUE, reason |-> "No data"]

WeatherAnswers(tzs, temps, codes) ==
    Rejections
      \cup {[kind |-> "resolved", data |-> NoCurrent]}
      \cup {[kind |-> "resolved", data |-> Forecast(tz, temp, code)] :
              tz \in tzs, temp \in temps, code \in codes}

Codes == (0 - CodeMargin)..(99 + CodeMargin)
Timezones == {"America/Los_Angeles", "Europe/London"}

FewWeatherAnswers == WeatherAnswers({"Europe/London"}, {60}, {3})
SomeWeatherAnswers == WeatherAnswers(Timezones, {60}, {1, 3, 67})
AllCodeAnswers == WeatherAnswers({"America/Los_Angeles"}, {72}, Codes)

\* Geocoding results: name and coordinates, with region (admin1) and country
\* each absent, empty or given.
Place(name, lat, lon) == [name |-> name, latitude |-> lat, longitude |-> lon]
OptionalField(field, value) ==
    {<<>>, [x \in {field} |-> ""], [x \in {field} |-> value]}
Variants(place, region, country) ==
    {place @@ a @@ c : a \in OptionalField("admin1", region),
                       c \in OptionalField("country", country)}

London ==
    Place("London", Normalize(515, 1), Normalize(-12, 2))
      @@ [admin1 |-> "England", country |-> "United Kingdom"]
Springfield ==
    Place("Springfield", Normalize(398, 1), Normalize(-8964, 2))
      @@ [admin1 |-> "Illinois", country |-> "United States"]
Places ==
    Variants(Place("London", Normalize(515, 1), Normalize(-12, 2)),
             "England", "United Kingdom")
      \cup Variants(Place("Paris", Normalize(4885, 2), Normalize(235, 2)),
                    "Ile-de-France", "France")

\* A 2xx geocoding answer without a results field, as sent for no match.
NoResults == [generationtime_ms |-> 1]

GeocodingAnswers(places) ==
    Rejections
      \cup {[kind |-> "resolved", data |-> NoResults],
            [kind |-> "resolved", data |-> [results |-> <<>>]]}
      \cup {[kind |-> "resolved", data |-> [results |-> <<c>>]] : c \in places}
      \cup {[kind |-> "resolved", data |-> [results |-> <<c, Springfield>>]] : c \in places}

FewGeocodingAnswers ==
    Rejections
      \cup {[kind |-> "resolved", data |-> NoResults],
            [kind |-> "resolved", data |-> [results |-> <<London>>]]}

Cities == {"London", "Paris", "Nowhereville"}

----------------------------------------------------------------------------
(* Gateway: the request handlers *)

\* A plausible slip: a branch that answers and, for want of a `return`, runs
\* on into the next res.json.
SendTwice(r, response) ==
    responses' = [responses EXCEPT ![r] = Append(Append(@, response), response)]

Send(r, response) == responses' = [responses EXCEPT ![r] = Append(@, response)]
Issue(r, call) == calls' = [calls EXCEPT ![r] = Append(@, call)]
Receive(r, answer) == replies' = [replies EXCEPT ![r] = Append(@, answer)]

\* app.get('/api/health')
Health(r) ==
    /\ requests[r].pc = "idle"
    /\ requests' = [requests EXCEPT ![r] = [pc |-> "done", endpoint |-> "health"]]
    /\ Send(r, HealthResponse)
    /\ UNCHANGED <<calls, replies, presenterVars>>

\* app.get('/api/weather'), up to the await of the forecast call.
GetWeather(r, query) ==
    /\ requests[r].pc = "idle"
    /\ IF MissingParams(query)
       THEN /\ requests' = [requests EXCEPT ![r] =
                              [pc |-> "done", endpoint |-> "coords", query |-> query]]
            /\ Send(r, MissingParamsResponse)
            /\ UNCHANGED calls
       ELSE /\ requests' = [requests EXCEPT ![r] =
                              [pc |-> "awaitWeather", endpoint |-> "coords",
                               query |-> query,
                               latitude |-> query.latitude,
                               longitude |-> query.longitude]]
            /\ Issue(r, ForecastCall(query.latitude, query.longitude))
            /\ UNCHANGED responses
    /\ UNCHANGED <<replies, presenterVars>>

\* The rest of the coordinate handler's try block, and its catch block.
CoordsOutcome(latitude, longitude, answer) ==
    IF answer.kind = "rejected"
    THEN ErrorResponse(answer.message)
    ELSE IF "current" \notin DOMAIN answer.data
    THEN ErrorResponse(TypeErrorMessage("temperature_2m"))
    ELSE [status |-> 200, body |-> CoordsBody(latitude, longitude, answer.data)]

\* A plausible slip: a module-level cache of good answers, keyed by the
\* coordinates and consulted before the forecast call's own outcome.
WeatherRepliesCached(r, answer) ==
    LET cached == {s \in Reqs \ {r} :
                     /\ requests[s].pc = "done"
                     /\ requests[s].endpoint = "coords"
                     /\ requests[s].query = requests[r].query
                     /\ responses[s][1].status = 200}
    IN  /\ requests[r].pc = "awaitWeather"
        /\ requests[r].endpoint = "coords"
        /\ Receive(r, answer)
        /\ IF cached # {}
           THEN Send(r, responses[CHOOSE s \in cached : TRUE][1])
           ELSE Send(r, CoordsOutcome(requests[r].latitude,
                                     requests[r].longitude, answer))
        /\ requests' = [requests EXCEPT ![r].pc = "done"]
        /\ UNCHANGED <<calls, presenterVars>>

\* app.get('/api/weather'), from the forecast call's outcome on.
WeatherReplies(r, answer) ==
    /\ requests[r].pc = "awaitWeather"
    /\ requests[r].endpoint = "coords"
    /\ Receive(r, answer)
    /\ Send(r, CoordsOutcome(requests[r].latitude, requests[r].longitude, answer))
    /\ requests' = [requests EXCEPT ![r].pc = "done"]
    /\ UNCHANGED <<calls, presenterVars>>

\* A plausible slip: the forecast call started beside the geocoding call
\* instead of after it, for coordinates not yet known.
GetWeatherByCityEager(r, city) ==
    /\ requests[r].pc = "idle"
    /\ requests' = [requests EXCEPT ![r] =
                      [pc |-> "awaitGeocoding", endpoint |-> "city", city |-> city]]
    /\ calls' = [calls EXCEPT ![r] =
                   <<GeocodingCall(city), ForecastCall(undefined, undefined)>>]
    /\ UNCHANGED <<replies, responses, presenterVars>>

\* app.get('/api/weather/city/:city'), up to the await of the geocoding call.
GetWeatherByCity(r, city) ==
    /\ requests[r].pc = "idle"
    /\ requests' = [requests EXCEPT ![r] =
                      [pc |-> "awaitGeocoding", endpoint |-> "city", city |-> city]]
    /\ Issue(r, GeocodingCall(city))
    /\ UNCHANGED <<replies, responses, presenterVars>>

\* The city handler from the geocoding call's outcome up to the await of the
\* forecast call.  Destructuring results[0] of an empty array throws.
GeocodingReplies(r, answer) ==
    /\ requests[r].pc = "awaitGeocoding"
    /\ Receive(r, answer)
    /\ IF answer.kind = "rejected"
       THEN /\ Send(r, ErrorResponse(answer.message))
            /\ requests' = [requests EXCEPT ![r].pc = "done"]
            /\ UNCHANGED calls
       ELSE IF CityNotFound(answer.data)
       THEN /\ Send(r, NotFoundResponse)
            /\ requests' = [requests EXCEPT ![r].pc = "done"]
            /\ UNCHANGED calls
       ELSE IF Len(answer.data.results) = 0
       THEN /\ Send(r, ErrorResponse(
                   "Cannot destructure property 'latitude' of 'cityData' as it is undefined."))
            /\ requests' = [requests EXCEPT ![r].pc = "done"]
            /\ UNCHANGED calls
       ELSE LET cityData == FirstResult(answer.data.results)
            IN  /\ requests' = [requests EXCEPT ![r] =
                                  [pc |-> "awaitWeather", endpoint |-> "city",
                                   city |-> requests[r].city, cityData |-> cityData]]
                /\ Issue(r, ForecastCall(cityData.latitude, cityData.longitude))
                /\ UNCHANGED responses
    /\ UNCHANGED presenterVars

\* The rest of the city handler's try block, and its catch block.
CityOutcome(cityData, answer) ==
    IF answer.kind = "rejected"
    THEN ErrorResponse(answer.message)
    ELSE IF "current" \notin DOMAIN answer.data
    THEN ErrorResponse(TypeErrorMessage("temperature_2m"))
    ELSE [status |-> 200, body |-> CityBody(cityData, answer.data)]

\* app.get('/api/weather/city/:city'), from the forecast call's outcome on.
CityWeatherReplies(r, answer) ==
    /\ requests[r].pc = "awaitWeather"
    /\ requests[r].endpoint = "city"
    /\ Receive(r, answer)
    /\ Send(r, CityOutcome(requests[r].cityData, answer))
    /\ requests' = [requests EXCEPT ![r].pc = "done"]
    /\ UNCHANGED <<calls, presenterVars>>

----------------------------------------------------------------------------
(* Presenter: temperature conversion *)

\* Math.round of the rational n/d (d > 0): the nearest integer, halves up.
MathRound(n, d) == (2 * n + d) \div (2 * d)

\* A plausible slip: truncation (parseInt, Math.trunc) instead of rounding.
convertTempTruncating(fahrenheit, toUnit) ==
    LET n == IF toUnit = "C" THEN (fahrenheit - 32) * 5 ELSE fahrenheit * 9
    IN  IF n >= 0 THEN n \div 9 ELSE 0 - ((0 - n) \div 9)

\* convertTemp of App.jsx.  For an integer argument the double
\* (fahrenheit - 32) * (5 / 9) lies within 1e-13 of the rational 5(f-32)/9,
\* which is never closer than 1/18 to a half, so rounding the rational gives
\* what Math.round gives.
convertTemp(fahrenheit, toUnit) ==
    IF toUnit = "C"
    THEN MathRound((fahrenheit - 32) * 5, 9)
    ELSE MathRound(fahrenheit, 1)

Temperatures == (0 - TempSpan)..TempSpan

\* One evaluation of convertTemp on the current arguments.
Convert ==
    /\ tempOutput = <<>>
    /\ tempOutput' = <<convertTemp(tempInput.fahrenheit, tempInput.toUnit)>>
    /\ UNCHANGED <<tempInput, gatewayVars, appVars>>

----------------------------------------------------------------------------
(* Presenter: values and pure helpers *)

\* JS null (the initial weather, location and error) and undefined.
null == JsonNull

\* A JS string held in a state that may also hold null.
Str(s) == [t |-> "string", v |-> s]

\* The four messages the presenter can store in its error state.
CouldNotLocate == "Could not get your location. Using default location."
NotSupported == "Geolocation is not supported by your browser."
FetchFailed == "Failed to fetch weather data. Please try again."
CityNotFoundMessage == "City not found. Please try another search."

\* The degree sign U+00B0, written in the module's character set.
Degree == "(deg)"

\* String(n) of a JS number with a finite decimal expansion.
DigitChars == <<"0", "1", "2", "3", "4", "5", "6", "7", "8", "9">>

RECURSIVE NatToString(_)
NatToString(n) ==
    IF n < 10 THEN <<DigitChars[n + 1]>>
    ELSE Append(NatToString(n \div 10), DigitChars[(n % 10) + 1])

RECURSIVE Pow10(_)
Pow10(e) == IF e = 0 THEN 1 ELSE 10 * Pow10(e - 1)

RECURSIVE ZeroPad(_, _)
ZeroPad(s, len) == IF Len(s) >= len THEN s ELSE ZeroPad(<<"0">> \o s, len)

NumberToString(v) ==
    LET mag == IF v.m < 0 THEN 0 - v.m ELSE v.m
        scale == Pow10(v.e)
    IN  (IF v.m < 0 THEN <<"-">> ELSE <<>>)
          \o NatToString(mag \div scale)
          \o (IF v.e = 0 THEN <<>>
              ELSE <<".">> \o ZeroPad(NatToString(mag % scale), v.e))

\* axios writes the params object into the query string and Express reads it
\* back as req.query: every number arrives as its decimal string.
QueryOf(params) == [k \in DOMAIN params |-> NumberToString(params[k])]

\* String.prototype.trim
RECURSIVE TrimStart(_)
TrimStart(s) ==
    IF s # <<>> /\ Head(s) \in WhiteSpace THEN TrimStart(Tail(s)) ELSE s

RECURSIVE TrimEnd(_)
TrimEnd(s) ==
    IF s # <<>> /\ s[Len(s)] \in WhiteSpace
    THEN TrimEnd(SubSeq(s, 1, Len(s) - 1))
    ELSE s

Trim(s) == TrimEnd(TrimStart(s))

\* A plausible slip: the two fallback coordinates in the other order.
DefaultPositionSwapped ==
    [latitude |-> Normalize(-1224194, 4), longitude |-> Normalize(377749, 4)]

\* The fallback coordinates of the geolocation error callback.
DefaultPosition ==
    [latitude |-> Normalize(377749, 4), longitude |-> Normalize(-1224194, 4)]

----------------------------------------------------------------------------
(* Presenter: WeatherDisplay *)

\* The emoji are named: U+2600 sun, U+26C5 sun behind cloud, U+2601 cloud,
\* U+1F32B fog, U+1F327 cloud with rain, U+2744 snowflake,
\* U+26C8 cloud with lightning and rain, U+1F324 sun behind small cloud.
\* A plausible slip: fog as the range 45..48 of the README's code table.
getWeatherIconFogRange(code) ==
    IF code = 0 \/ code = 1 THEN "sun"
    ELSE IF code = 2 THEN "sun behind cloud"
    ELSE IF code = 3 THEN "cloud"
    ELSE IF code >= 45 /\ code <= 48 THEN "fog"
    ELSE IF code >= 51 /\ code <= 67 THEN "cloud with rain"
    ELSE IF code >= 71 /\ code <= 86 THEN "snowflake"
    ELSE IF code >= 95 /\ code <= 99 THEN "cloud with lightning and rain"
    ELSE "sun behind small cloud"

\* A plausible slip: the snow range run up to the storm range.
getWeatherIconSnowTo94(code) ==
    IF code = 0 \/ code = 1 THEN "sun"
    ELSE IF code = 2 THEN "sun behind cloud"
    ELSE IF code = 3 THEN "cloud"
    ELSE IF code = 45 \/ code = 48 THEN "fog"
    ELSE IF code >= 51 /\ code <= 67 THEN "cloud with rain"
    ELSE IF code >= 71 /\ code <= 94 THEN "snowflake"
    ELSE IF code >= 95 /\ code <= 99 THEN "cloud with lightning and rain"
    ELSE "sun behind small cloud"

\* A plausible slip: the rain showers 80..82 matched as rain before the
\* snow range.
getWeatherIconShowersAsRain(code) ==
    IF code = 0 \/ code = 1 THEN "sun"
    ELSE IF code = 2 THEN "sun behind cloud"
    ELSE IF code = 3 THEN "cloud"
    ELSE IF code = 45 \/ code = 48 THEN "fog"
    ELSE IF (code >= 51 /\ code <= 67) \/ (code >= 80 /\ code <= 82)
    THEN "cloud with rain"
    ELSE IF code >= 71 /\ code <= 86 THEN "snowflake"
    ELSE IF code >= 95 /\ code <= 99 THEN "cloud with lightning and rain"
    ELSE "sun behind small cloud"

\* getWeatherIcon of WeatherDisplay.jsx
getWeatherIcon(code) ==
    IF code = 0 \/ code = 1 THEN "sun"
    ELSE IF code = 2 THEN "sun behind cloud"
    ELSE IF code = 3 THEN "cloud"
    ELSE IF code = 45 \/ code = 48 THEN "fog"
    ELSE IF code >= 51 /\ code <= 67 THEN "cloud with rain"
    ELSE IF code >= 71 /\ code <= 86 THEN "snowflake"
    ELSE IF code >= 95 /\ code <= 99 THEN "cloud with lightning and rain"
    ELSE "sun behind small cloud"

\* What WeatherDisplay renders of the weather card.  The component
\* destructures only `weather` from its props: temperatureUnit and
\* convertTemp, which App passes, are not read.
WeatherDisplay(props) ==
    LET current_weather == props.weather.current_weather
    IN  [icon |-> getWeatherIcon(current_weather.weather_code),
         temperature |->
             ToString(MathRound(current_weather.temperature, 1)) \o Degree \o "F",
         description |-> current_weather.description,
         feelsLike |->
             ToString(MathRound(current_weather.apparent_temperature, 1))
               \o Degree \o "F"]

\* What App renders below the search form, from the current state.
Screen ==
    [toggle |-> Degree \o temperatureUnit,
     error |-> error,
     loading |-> loading,
     display |-> IF weather = null THEN null
                 ELSE WeatherDisplay([weather |-> weather,
                                      temperatureUnit |-> temperatureUnit])]

----------------------------------------------------------------------------
(* Presenter: the event handlers of App and WeatherSearch *)

AppInitial ==
    /\ weather = null
    /\ location = null
    /\ loading = FALSE
    /\ error = null
    /\ temperatureUnit = "F"
    /\ searchTerm = <<>>
    /\ geolocation = [status |-> "unmounted"]
    /\ fetches = <<>>

Mounted == geolocation.status # "unmounted"

\* The number of fetch events so far: calls issued and calls settled.  Each
\* fetch keeps the number of the event that started it and of the one that
\* settled it.
Clock ==
    Len(fetches) + Cardinality({f \in 1..Len(fetches) : fetches[f].state # "pending"})

\* fetchWeatherByCoords and fetchWeatherByCity up to their await: both set
\* the loading flag, clear the error and issue one axios.get.
StartFetch(call) ==
    /\ Len(fetches) < MaxFetch
    /\ loading' = TRUE
    /\ error' = null
    /\ fetches' = Append(fetches,
                         call @@ [state |-> "pending", started |-> Clock + 1])

fetchWeatherByCoords(latitude, longitude) ==
    StartFetch([path |-> "coords",
                params |-> [latitude |-> latitude, longitude |-> longitude]])

fetchWeatherByCity(city) == StartFetch([path |-> "city", city |-> city])

\* The mount effect; `supported` is the truthiness of navigator.geolocation.
Mount(supported) ==
    /\ geolocation.status = "unmounted"
    /\ IF supported
       THEN /\ geolocation' = [status |-> "requested"]
            /\ UNCHANGED error
       ELSE /\ geolocation' = [status |-> "unsupported"]
            /\ error' = Str(NotSupported)
    /\ UNCHANGED <<weather, location, loading, temperatureUnit, searchTerm,
                   fetches, gatewayVars, tempInput, tempOutput>>

\* The success callback of getCurrentPosition.
GeolocationSucceeds(position) ==
    /\ geolocation.status = "requested"
    /\ geolocation' = [status |-> "granted", coords |-> position]
    /\ fetchWeatherByCoords(position.latitude, position.longitude)
    /\ UNCHANGED <<weather, location, temperatureUnit, searchTerm,
                   gatewayVars, tempInput, tempOutput>>

\* The error callback of getCurrentPosition: setError(CouldNotLocate), then
\* fetchWeatherByCoords, whose setError(null) is the later update of the
\* same state and is the one the callback leaves behind.
GeolocationFails ==
    /\ geolocation.status = "requested"
    /\ geolocation' = [status |-> "denied"]
    /\ fetchWeatherByCoords(DefaultPosition.latitude, DefaultPosition.longitude)
    /\ UNCHANGED <<weather, location, temperatureUnit, searchTerm,
                   gatewayVars, tempInput, tempOutput>>

\* A plausible slip: the toggle refetches the weather for the new unit.
ToggleUnitRefetching ==
    /\ Mounted
    /\ temperatureUnit' = IF temperatureUnit = "F" THEN "C" ELSE "F"
    /\ fetchWeatherByCoords(DefaultPosition.latitude, DefaultPosition.longitude)
    /\ UNCHANGED <<weather, location, searchTerm, geolocation,
                   gatewayVars, tempInput, tempOutput>>

\* onClick of the unit toggle button.
ToggleUnit ==
    /\ Mounted
    /\ temperatureUnit' = IF temperatureUnit = "F" THEN "C" ELSE "F"
    /\ UNCHANGED <<weather, location, loading, error, searchTerm, geolocation,
                   fetches, gatewayVars, tempInput, tempOutput>>

\* onChange of the search input.
handleChange(value) ==
    /\ Mounted
    /\ searchTerm' = value
    /\ UNCHANGED <<weather, location, loading, error, temperatureUnit,
                   geolocation, fetches, gatewayVars, tempInput, tempOutput>>

\* A plausible slip: the search passes on the trimmed text.
handleSubmitTrimmed ==
    /\ Mounted
    /\ IF Trim(searchTerm) # <<>>
       THEN /\ fetchWeatherByCity(Trim(searchTerm))
            /\ searchTerm' = <<>>
       ELSE UNCHANGED <<loading, error, fetches, searchTerm>>
    /\ UNCHANGED <<weather, location, temperatureUnit, geolocation,
                   gatewayVars, tempInput, tempOutput>>

\* handleSubmit of WeatherSearch, with App's fetchWeatherByCity as onSearch.
handleSubmit ==
    /\ Mounted
    /\ IF TruthyString(Trim(searchTerm))
       THEN /\ fetchWeatherByCity(searchTerm)
            /\ searchTerm' = <<>>
       ELSE UNCHANGED <<loading, error, fetches, searchTerm>>
    /\ UNCHANGED <<weather, location, temperatureUnit, geolocation,
                   gatewayVars, tempInput, tempOutput>>

\* axios.get as the presenter awaits it: a 2xx response resolves with its
\* body as data, any other status rejects, and so does a lost connection.
AxiosOutcome(response) ==
    IF response.status >= 200 /\ response.status < 300
    THEN [kind |-> "resolved", data |-> response.body]
    ELSE [kind |-> "rejected", cause |-> "status", response |-> response]

NetworkError == [kind |-> "rejected", cause |-> "network"]

\* A plausible slip: the catch block shows the gateway's own error string
\* when the rejection carries a response.
CaughtMessageFromResponse(path, err) ==
    IF err.cause = "status" /\ "error" \in DOMAIN err.response.body
    THEN err.response.body.error
    ELSE IF path = "coords" THEN FetchFailed ELSE CityNotFoundMessage

\* The message each fetch function's catch block stores; err is only logged.
CaughtMessage(path, err) ==
    IF path = "coords" THEN FetchFailed ELSE CityNotFoundMessage

\* A plausible slip: a guard that drops the response of any fetch but the
\* one issued last.
FetchSettlesLatestOnly(f, outcome) ==
    /\ f \in 1..Len(fetches)
    /\ fetches[f].state = "pending"
    /\ IF outcome.kind = "resolved"
       THEN /\ IF f = Len(fetches)
               THEN /\ weather' = outcome.data
                    /\ location' = IF "location" \in DOMAIN outcome.data
                                   THEN outcome.data.location
                                   ELSE undefined
               ELSE UNCHANGED <<weather, location>>
            /\ UNCHANGED error
       ELSE /\ error' = Str(CaughtMessage(fetches[f].path, outcome))
            /\ UNCHANGED <<weather, location>>
    /\ loading' = FALSE
    /\ fetches' = [fetches EXCEPT ![f] =
                     [state |-> IF outcome.kind = "resolved"
                                THEN "fulfilled" ELSE "rejected",
                      outcome |-> outcome,
                      settled |-> Clock + 1] @@ @]
    /\ UNCHANGED <<temperatureUnit, searchTerm, geolocation,
                   gatewayVars, tempInput, tempOutput>>

\* A plausible slip: a success that also clears the error.
FetchSettlesClearingError(f, outcome) ==
    /\ f \in 1..Len(fetches)
    /\ fetches[f].state = "pending"
    /\ IF outcome.kind = "resolved"
       THEN /\ weather' = outcome.data
            /\ location' = IF "location" \in DOMAIN outcome.data
                           THEN outcome.data.location
                           ELSE undefined
            /\ error' = null
       ELSE /\ error' = Str(CaughtMessage(fetches[f].path, outcome))
            /\ UNCHANGED <<weather, location>>
    /\ loading' = FALSE
    /\ fetches' = [fetches EXCEPT ![f] =
                     [state |-> IF outcome.kind = "resolved"
                                THEN "fulfilled" ELSE "rejected",
                      outcome |-> outcome,
                      settled |-> Clock + 1] @@ @]
    /\ UNCHANGED <<temperatureUnit, searchTerm, geolocation,
                   gatewayVars, tempInput, tempOutput>>

\* A plausible slip: a failure that also clears the stale weather.
FetchSettlesClearingOnFailure(f, outcome) ==
    /\ f \in 1..Len(fetches)
    /\ fetches[f].state = "pending"
    /\ IF outcome.kind = "resolved"
       THEN /\ weather' = outcome.data
            /\ location' = IF "location" \in DOMAIN outcome.data
                           THEN outcome.data.location
                           ELSE undefined
            /\ UNCHANGED error
       ELSE /\ error' = Str(CaughtMessage(fetches[f].path, outcome))
            /\ weather' = null
            /\ location' = null
    /\ loading' = FALSE
    /\ fetches' = [fetches EXCEPT ![f] =
                     [state |-> IF outcome.kind = "resolved"
                                THEN "fulfilled" ELSE "rejected",
                      outcome |-> outcome,
                      settled |-> Clock + 1] @@ @]
    /\ UNCHANGED <<temperatureUnit, searchTerm, geolocation,
                   gatewayVars, tempInput, tempOutput>>

\* A plausible slip: the loading flag reset at the end of the try block
\* instead of in a finally block.
FetchSettlesNoFinally(f, outcome) ==
    /\ f \in 1..Len(fetches)
    /\ fetches[f].state = "pending"
    /\ IF outcome.kind = "resolved"
       THEN /\ weather' = outcome.data
            /\ location' = IF "location" \in DOMAIN outcome.data
                           THEN outcome.data.location
                           ELSE undefined
            /\ loading' = FALSE
            /\ UNCHANGED error
       ELSE /\ error' = Str(CaughtMessage(fetches[f].path, outcome))
            /\ UNCHANGED <<weather, location, loading>>
    /\ fetches' = [fetches EXCEPT ![f] =
                     [state |-> IF outcome.kind = "resolved"
                                THEN "fulfilled" ELSE "rejected",
                      outcome |-> outcome,
                      settled |-> Clock + 1] @@ @]
    /\ UNCHANGED <<temperatureUnit, searchTerm, geolocation,
                   gatewayVars, tempInput, tempOutput>>

\* fetchWeatherByCoords and fetchWeatherByCity from their await on: the try
\* block's two updates or the catch block's one, then the finally block.
FetchSettles(f, outcome) ==
    /\ f \in 1..Len(fetches)
    /\ fetches[f].state = "pending"
    /\ IF outcome.kind = "resolved"
       THEN /\ weather' = outcome.data
            /\ location' = IF "location" \in DOMAIN outcome.data
                           THEN outcome.data.location
                           ELSE undefined
            /\ UNCHANGED error
       ELSE /\ error' = Str(CaughtMessage(fetches[f].path, outcome))
            /\ UNCHANGED <<weather, location>>
    /\ loading' = FALSE
    /\ fetches' = [fetches EXCEPT ![f] =
                     [state |-> IF outcome.kind = "resolved"
                                THEN "fulfilled" ELSE "rejected",
                      outcome |-> outcome,
                      settled |-> Clock + 1] @@ @]
    /\ UNCHANGED <<temperatureUnit, searchTerm, geolocation,
                   gatewayVars, tempInput, tempOutput>>

\* The presenter's requests reach the gateway, and its responses the presenter.
Arrives(f) ==
    /\ f \in 1..Len(fetches)
    /\ IF fetches[f].path = "coords"
       THEN GetWeather(f, QueryOf(fetches[f].params))
       ELSE GetWeatherByCity(f, fetches[f].city)

Delivered(f) ==
    /\ responses[f] # <<>>
    /\ FetchSettles(f, AxiosOutcome(responses[f][1]))

----------------------------------------------------------------------------
(* Specifications *)

GatewayIdle ==
    /\ requests = [r \in Reqs |-> [pc |-> "idle"]]
    /\ calls = [r \in Reqs |-> <<>>]
    /\ replies = [r \in Reqs |-> <<>>]
    /\ responses = [r \in Reqs |-> <<>>]

Init ==
    /\ GatewayIdle
    /\ AppInitial
    /\ tempInput = [fahrenheit |-> 72, toUnit |-> "F"]
    /\ tempOutput = <<>>

\* Concurrent requests on all three endpoints.
Next ==
    \E r \in Reqs :
        \/ Health(r)
        \/ \E query \in FewQueries : GetWeather(r, query)
        \/ \E answer \in FewWeatherAnswers : WeatherReplies(r, answer)
        \/ GetWeatherByCity(r, "London")
        \/ \E answer \in FewGeocodingAnswers : GeocodingReplies(r, answer)
        \/ \E answer \in FewWeatherAnswers : CityWeatherReplies(r, answer)

Spec == Init /\ [][Next]_vars

\* An external call that is pending gets its outcome: the upstream service
\* returns or fails, and the handler's continuation runs.
UpstreamReplies(r) ==
    \/ \E answer \in FewWeatherAnswers : WeatherReplies(r, answer)
    \/ \E answer \in FewGeocodingAnswers : GeocodingReplies(r, answer)
    \/ \E answer \in FewWeatherAnswers : CityWeatherReplies(r, answer)

\* Two concurrent requests on all three endpoints, when no external call
\* stays pending for ever.
FairReqs == {1, 2}

NextFair ==
    \E r \in FairReqs :
        \/ Health(r)
        \/ \E query \in FewQueries : GetWeather(r, query)
        \/ GetWeatherByCity(r, "London")
        \/ UpstreamReplies(r)

SpecFair ==
    Init /\ [][NextFair]_vars /\ \A r \in FairReqs : WF_vars(UpstreamReplies(r))

\* One coordinate request, over every enumerated query string.
NextCoords ==
    \/ /\ requests[1].pc = "idle"
       /\ \E query \in AllQueries : GetWeather(1, query)
    \/ \E answer \in SomeWeatherAnswers : WeatherReplies(1, answer)

SpecCoords == Init /\ [][NextCoords]_vars

\* One city request, over every enumerated geocoding answer.
NextCity ==
    \/ \E city \in Cities : GetWeatherByCity(1, city)
    \/ \E answer \in GeocodingAnswers(Places) : GeocodingReplies(1, answer)
    \/ \E answer \in SomeWeatherAnswers : CityWeatherReplies(1, answer)

SpecCity == Init /\ [][NextCity]_vars

\* One weather request on either endpoint, over every weather code.
NextCodes ==
    \/ GetWeather(1, [latitude |-> DefaultLatitude, longitude |-> DefaultLongitude])
    \/ \E answer \in AllCodeAnswers : WeatherReplies(1, answer)
    \/ GetWeatherByCity(1, "London")
    \/ GeocodingReplies(1, [kind |-> "resolved", data |-> [results |-> <<London>>]])
    \/ \E answer \in AllCodeAnswers : CityWeatherReplies(1, answer)

SpecCodes == Init /\ [][NextCodes]_vars

\* convertTemp applied to every temperature and unit.
InitConvert ==
    /\ GatewayIdle
    /\ AppInitial
    /\ tempInput \in [fahrenheit : Temperatures, toUnit : {"F", "C"}]
    /\ tempOutput = <<>>

NextConvert == Convert

SpecConvert == InitConvert /\ [][NextConvert]_vars

\* What the forecast service answers in the display specification: every
\* weather code, at three temperatures.
DisplayAnswers == WeatherAnswers({"America/Los_Angeles"}, {72, 32, -4}, Codes)

\* The presenter's first fetch carried through the gateway and displayed,
\* over every weather code, with the unit toggled at any moment.
NextDisplay ==
    \/ Mount(TRUE)
    \/ GeolocationFails
    \/ Arrives(1)
    \/ \E answer \in DisplayAnswers : WeatherReplies(1, answer)
    \/ Delivered(1)
    \/ ToggleUnit

SpecDisplay == Init /\ [][NextDisplay]_vars

\* Device positions getCurrentPosition reports: the tests' (0, 0) and London.
Positions ==
    {[latitude |-> Normalize(0, 0), longitude |-> Normalize(0, 0)],
     [latitude |-> Normalize(515, 1), longitude |-> Normalize(-12, 2)]}

\* Texts typed into the search input.
SearchAlphabet == {" ", "a"}

RECURSIVE TermsOfLen(_)
TermsOfLen(n) ==
    IF n = 0 THEN {<<>>}
    ELSE {Append(s, c) : s \in TermsOfLen(n - 1), c \in SearchAlphabet}

LondonTerm == <<"L", "o", "n", "d", "o", "n">>

SearchTerms == UNION {TermsOfLen(n) : n \in 0..MaxTermLen} \cup {LondonTerm}

\* Every kind of response the gateway sends, and the outcomes of axios.get
\* they make, with the lost connection.
GatewayResponses ==
    {MissingParamsResponse, NotFoundResponse, ErrorResponse("Network Error"),
     [status |-> 200,
      body |-> CoordsBody(DefaultLatitude, DefaultLongitude,
                          Forecast("America/Los_Angeles", 72, 0))],
     [status |-> 200,
      body |-> CityBody(London, Forecast("Europe/London", 60, 3))]}

GatewayOutcomes == {NetworkError} \cup {AxiosOutcome(r) : r \in GatewayResponses}

\* The presenter alone: its fetches settle with any outcome, in any order.
NextPresenter ==
    \/ \E supported \in BOOLEAN : Mount(supported)
    \/ \E position \in Positions : GeolocationSucceeds(position)
    \/ GeolocationFails
    \/ \E value \in {LondonTerm, <<" ">>} : handleChange(value)
    \/ handleSubmit
    \/ ToggleUnit
    \/ \E f \in 1..MaxFetch :
          \E outcome \in GatewayOutcomes : FetchSettles(f, outcome)

SpecPresenter == Init /\ [][NextPresenter]_vars

\* The gateway answers a pending fetch, or the call fails.
Settles(f) == \E outcome \in GatewayOutcomes : FetchSettles(f, outcome)

\* The presenter's fetches alone, started at mount and by searches, when no
\* call stays pending for ever.
NextFetches ==
    \/ Mount(TRUE)
    \/ GeolocationFails
    \/ handleChange(LondonTerm)
    \/ handleSubmit
    \/ \E f \in 1..MaxFetch : Settles(f)

SpecFetchesFair ==
    Init /\ [][NextFetches]_vars /\ \A f \in 1..MaxFetch : WF_vars(Settles(f))

\* The search form alone: any text typed, submitted at any moment.
NextSearch ==
    \/ Mount(TRUE)
    \/ /\ Mounted
       /\ \E value \in SearchTerms : handleChange(value)
    \/ handleSubmit

SpecSearch == Init /\ [][NextSearch]_vars

\* What the upstream services answer in the composed specification: a
\* forecast or a failure, and a match, no match or a failure.
StackWeatherAnswers ==
    {[kind |-> "rejected", cause |-> "network", message |-> "Network Error"],
     [kind |-> "resolved", data |-> Forecast("Europe/London", 60, 3)]}

StackGeocodingAnswers ==
    {[kind |-> "rejected", cause |-> "network", message |-> "Network Error"],
     [kind |-> "resolved", data |-> NoResults],
     [kind |-> "resolved", data |-> [results |-> <<London>>]]}

\* Presenter and gateway together: every fetch travels to the gateway, the
\* gateway calls the upstream services, and its response, or the loss of
\* the connection, settles the fetch.
NextStack ==
    \/ Mount(TRUE)
    \/ GeolocationSucceeds([latitude |-> Normalize(515, 1),
                            longitude |-> Normalize(-12, 2)])
    \/ GeolocationFails
    \/ handleChange(LondonTerm)
    \/ handleSubmit
    \/ ToggleUnit
    \/ \E f \in 1..MaxFetch :
          \/ Arrives(f)
          \/ \E answer \in StackWeatherAnswers : WeatherReplies(f, answer)
          \/ \E answer \in StackGeocodingAnswers : GeocodingReplies(f, answer)
          \/ \E answer \in StackWeatherAnswers : CityWeatherReplies(f, answer)
          \/ Delivered(f)
          \/ FetchSettles(f, NetworkError)

SpecStack == Init /\ [][NextStack]_vars

----------------------------------------------------------------------------
(* Claims *)

FailedToFetch == "Failed to fetch weather data"
ForecastUrl == "https://api.open-meteo.com/v1/forecast"
GeocodingUrl == "https://geocoding-api.open-meteo.com/v1/search"

\* The documented table of descriptions, as the specification lists it.
Documented ==
    {<<0, "Clear sky">>, <<1, "Mainly clear">>, <<2, "Partly cloudy">>,
     <<3, "Overcast">>, <<45, "Foggy">>, <<48, "Foggy with rime">>,
     <<51, "Light drizzle">>, <<53, "Moderate drizzle">>, <<55, "Dense drizzle">>,
     <<61, "Slight rain">>, <<63, "Moderate rain">>, <<65, "Heavy rain">>,
     <<71, "Slight snow">>, <<73, "Moderate snow">>, <<75, "Heavy snow">>,
     <<80, "Slight rain showers">>, <<81, "Moderate rain showers">>,
     <<82, "Violent rain showers">>, <<85, "Slight snow showers">>,
     <<86, "Heavy snow showers">>, <<95, "Thunderstorm">>,
     <<96, "Thunderstorm with slight hail">>, <<99, "Thunderstorm with heavy hail">>}
DocumentedDescription(code) ==
    IF \E p \in Documented : p[1] = code
    THEN (CHOOSE p \in Documented : p[1] = code)[2]
    ELSE "Unknown"

\* Request r is a weather request answered 200.
Succeeded(r) ==
    /\ requests[r].pc = "done"
    /\ requests[r].endpoint \in {"coords", "city"}
    /\ Len(responses[r]) = 1
    /\ responses[r][1].status = 200
\* The payload of the forecast answer request r got last.
LastAnswer(r) == replies[r][Len(replies[r])]

\* C1: the description in every successful weather answer is the documented
\* string of the provider's code when the code is one of the 23 documented
\* codes, and "Unknown" for every other integer code.
C1_DescriptionIsExactLookup ==
    \A r \in Reqs :
        Succeeded(r) =>
            LET code == LastAnswer(r).data.current.weather_code
            IN  /\ responses[r][1].body.current_weather.description
                     = DocumentedDescription(code)
                /\ getWeatherDescription(code) = DocumentedDescription(code)

C1_Witness ==
    /\ Succeeded(1)
    /\ LastAnswer(1).data.current.weather_code = 99
    /\ responses[1][1].body.current_weather.description = "Thunderstorm with heavy hail"

\* Parameter p of the query is absent or empty.
AbsentOrEmpty(query, p) == p \notin DOMAIN query \/ query[p] = <<>>

\* C2: a coordinate request whose latitude or longitude is absent or empty
\* is answered 400 'Missing latitude or longitude parameters' and issues no
\* upstream call.
C2_MissingParameterIs400 ==
    \A r \in Reqs :
        ( /\ requests[r].pc # "idle"
          /\ requests[r].endpoint = "coords"
          /\ \/ AbsentOrEmpty(requests[r].query, "latitude")
             \/ AbsentOrEmpty(requests[r].query, "longitude") )
        => /\ requests[r].pc = "done"
           /\ responses[r] =
                <<[status |-> 400,
                   body |-> [error |-> "Missing latitude or longitude parameters"]]>>
           /\ calls[r] = <<>>

C2_Witness ==
    /\ requests[1].pc = "done"
    /\ requests[1].endpoint = "coords"
    /\ requests[1].query = [longitude |-> DefaultLongitude]
    /\ responses[1][1].status = 400
    /\ calls[1] = <<>>

\* C3: a city request whose geocoding call succeeds without results (no
\* results field, or an empty array) is answered 404 {error: 'City not
\* found'} and never calls the weather provider.
C3_NoResultsIs404 ==
    \A r \in Reqs :
        ( /\ requests[r].pc # "idle"
          /\ requests[r].endpoint = "city"
          /\ Len(replies[r]) >= 1
          /\ replies[r][1].kind = "resolved"
          /\ \/ "results" \notin DOMAIN replies[r][1].data
             \/ replies[r][1].data.results = <<>> )
        => /\ requests[r].pc = "done"
           /\ responses[r] = <<[status |-> 404, body |-> [error |-> "City not found"]]>>
           /\ \A i \in DOMAIN calls[r] : calls[r][i].url # ForecastUrl

C3_Witness ==
    /\ requests[1].pc = "done"
    /\ requests[1].endpoint = "city"
    /\ replies[1] = <<[kind |-> "resolved", data |-> [results |-> <<>>]]>>
    /\ responses[1][1].status = 404

\* Answer number i of request r is a failed external call, and its message.
Failed(r, i) ==
    \/ replies[r][i].kind = "rejected"
    \/ /\ calls[r][i].url = ForecastUrl
       /\ "current" \notin DOMAIN replies[r][i].data
FailureMessage(r, i) ==
    IF replies[r][i].kind = "rejected"
    THEN replies[r][i].message
    ELSE "Cannot read properties of undefined (reading 'temperature_2m')"

\* C4: on both endpoints a failed external call (rejected for a network
\* error or a non-2xx status, or a forecast payload without `current`) is
\* answered 500 'Failed to fetch weather data' with the error's message as
\* details, whichever call and whichever kind of failure it was.
C4_UpstreamFailureIs500 ==
    \A r \in Reqs :
        \A i \in DOMAIN replies[r] :
            Failed(r, i) =>
                /\ i = Len(replies[r])
                /\ requests[r].pc = "done"
                /\ responses[r] =
                     <<[status |-> 500,
                        body |-> [error |-> FailedToFetch,
                                  details |-> FailureMessage(r, i)]]>>

C4_Witness ==
    \E r \in Reqs :
        /\ requests[r].pc = "done"
        /\ requests[r].endpoint = "city"
        /\ Len(replies[r]) = 1
        /\ replies[r][1].kind = "rejected"
        /\ replies[r][1].cause = "status"
        /\ responses[r][1].status = 500
        /\ responses[r][1].body.details = "Request failed with status code 404"

\* C5: a coordinate request with both parameters present whose forecast
\* call succeeds is answered 200 with success = true, the provider's
\* timezone, the provider's six fields unchanged and the documented
\* description of the provider's code.
C5_CoordsSuccessEnvelope ==
    \A r \in Reqs :
        ( /\ requests[r].pc # "idle"
          /\ requests[r].endpoint = "coords"
          /\ Len(replies[r]) = 1
          /\ replies[r][1].kind = "resolved"
          /\ "current" \in DOMAIN replies[r][1].data )
        => LET up == replies[r][1].data
               body == responses[r][1].body
               cw == body.current_weather
           IN  /\ Len(responses[r]) = 1
               /\ responses[r][1].status = 200
               /\ body.success = TRUE
               /\ body.location.timezone = up.timezone
               /\ DOMAIN cw = {"temperature", "apparent_temperature", "humidity",
                               "precipitation", "weather_code", "wind_speed",
                               "description"}
               /\ cw.temperature = up.current.temperature_2m
               /\ cw.apparent_temperature = up.current.apparent_temperature
               /\ cw.humidity = up.current.relative_humidity_2m
               /\ cw.precipitation = up.current.precipitation
               /\ cw.weather_code = up.current.weather_code
               /\ cw.wind_speed = up.current.wind_speed_10m
               /\ cw.description = DocumentedDescription(up.current.weather_code)

C5_Witness ==
    /\ Succeeded(1)
    /\ requests[1].query = [latitude |-> DefaultLatitude, longitude |-> DefaultLongitude]
    /\ replies[1][1].data.current.weather_code = 1
    /\ responses[1][1].body.current_weather.description = "Mainly clear"
    /\ responses[1][1].body.location.timezone = "America/Los_Angeles"

\* The number a string denotes when the whole of it is a decimal numeral.
DecimalValue(s) ==
    LET p == DecimalPrefix(s)
    IN  IF p.valid /\ p.end = Len(s) + 1 THEN PrefixValue(s, p) ELSE NaN

\* C6: in every 200 answer of a coordinate request, location.latitude and
\* location.longitude are numbers, equal to the numeric values of the
\* parameters sent.
C6_CoordinatesAreNumbers ==
    \A r \in Reqs :
        (Succeeded(r) /\ requests[r].endpoint = "coords") =>
            LET sent == responses[r][1].body.location
            IN  /\ sent.latitude.t = "number"
                /\ sent.longitude.t = "number"
                /\ sent.latitude = DecimalValue(requests[r].query.latitude)
                /\ sent.longitude = DecimalValue(requests[r].query.longitude)

\* C7: a city request with at least one geocoding result and a successful
\* forecast call is answered 200 with the first result's coordinates, which
\* are the coordinates sent to the provider, a populated name, the
\* provider's timezone and the documented description of its code.
C7_CitySuccessEnvelope ==
    \A r \in Reqs :
        ( /\ requests[r].pc # "idle"
          /\ requests[r].endpoint = "city"
          /\ Len(replies[r]) = 2
          /\ replies[r][2].kind = "resolved"
          /\ "current" \in DOMAIN replies[r][2].data )
        => LET first == replies[r][1].data.results[1]
               up == replies[r][2].data
               body == responses[r][1].body
           IN  /\ Len(responses[r]) = 1
               /\ responses[r][1].status = 200
               /\ body.location.latitude = first.latitude
               /\ body.location.longitude = first.longitude
               /\ Len(calls[r]) = 2
               /\ calls[r][2].url = ForecastUrl
               /\ calls[r][2].params.latitude = first.latitude
               /\ calls[r][2].params.longitude = first.longitude
               /\ "name" \in DOMAIN body.location
               /\ body.location.name # ""
               /\ body.location.timezone = up.timezone
               /\ body.current_weather.description
                    = DocumentedDescription(up.current.weather_code)
               /\ (first = London /\ up.current.weather_code = 3)
                    => /\ body.location.name = "London, England, United Kingdom"
                       /\ body.current_weather.description = "Overcast"

C7_Witness ==
    /\ Succeeded(1)
    /\ requests[1].endpoint = "city"
    /\ replies[1][1].data.results = <<London, Springfield>>
    /\ replies[1][2].data.current.weather_code = 3
    /\ responses[1][1].body.location.name = "London, England, United Kingdom"
    /\ responses[1][1].body.location.latitude = London.latitude
    /\ responses[1][1].body.current_weather.description = "Overcast"

\* The parts of a place that are present (a field that is there and not empty).
Present(c, field) == field \in DOMAIN c /\ c[field] # ""
NameParts(c) ==
    <<c.name>>
      \o (IF Present(c, "admin1") THEN <<c.admin1>> ELSE <<>>)
      \o (IF Present(c, "country") THEN <<c.country>> ELSE <<>>)
\* The parts written one after the other with ", " between neighbours only.
RECURSIVE Joined(_)
Joined(parts) ==
    IF Len(parts) = 1 THEN parts[1] ELSE parts[1] \o ", " \o Joined(Tail(parts))

\* C8: the display name is the city name, then the region and the country,
\* each only when present, with ", " between neighbouring parts only: no
\* leading, trailing or doubled separator, whatever is absent.
C8_DisplayNameHasNoStraySeparator ==
    \A r \in Reqs :
        (Succeeded(r) /\ requests[r].endpoint = "city") =>
            LET first == replies[r][1].data.results[1]
                name == responses[r][1].body.location.name
            IN  /\ name = Joined(NameParts(first))
                /\ (first.name = "Paris" /\ ~Present(first, "admin1")
                      /\ Present(first, "country"))
                     => name = "Paris, France"
                /\ (~Present(first, "admin1") /\ ~Present(first, "country"))
                     => name = first.name

C8_Witness ==
    /\ Succeeded(1)
    /\ requests[1].endpoint = "city"
    /\ replies[1][1].data.results[1].name = "Paris"
    /\ "admin1" \notin DOMAIN replies[1][1].data.results[1]
    /\ "country" \in DOMAIN replies[1][1].data.results[1]
    /\ replies[1][1].data.results[1].country = "France"
    /\ responses[1][1].body.location.name = "Paris, France"

\* C9: a health request is answered 200 {status: 'OK', message: 'Weather
\* API is running'} and makes no upstream call, whatever the other requests
\* are doing or have been answered.
C9_HealthAlwaysOK ==
    \A r \in Reqs :
        (requests[r].pc # "idle" /\ requests[r].endpoint = "health") =>
            /\ requests[r].pc = "done"
            /\ responses[r] =
                 <<[status |-> 200,
                    body |-> [status |-> "OK", message |-> "Weather API is running"]]>>
            /\ calls[r] = <<>>
            /\ replies[r] = <<>>

C9_Witness ==
    \E r, failed, waiting \in Reqs :
        /\ requests[failed].pc = "done"
        /\ requests[failed].endpoint # "health"
        /\ responses[failed][1].status = 500
        /\ requests[waiting].pc \in {"awaitGeocoding", "awaitWeather"}
        /\ requests[r].pc = "done"
        /\ requests[r].endpoint = "health"
        /\ responses[r][1].status = 200

Abs(x) == IF x < 0 THEN 0 - x ELSE x

\* C10: convertTemp(f, 'C') is the integer nearest to (f - 32) * 5/9 and
\* convertTemp(f, 'F') is f, for every integer f of the range; 32 gives 0,
\* 72 gives 22 and -4 gives -20 in Celsius, 72 gives 72 in Fahrenheit.
C10_ConvertTempRounds ==
    tempOutput # <<>> =>
        LET f == tempInput.fahrenheit
            result == tempOutput[1]
        IN  /\ tempInput.toUnit = "C" => 2 * Abs(9 * result - 5 * (f - 32)) <= 9
            /\ tempInput.toUnit = "F" => result = f
            /\ (tempInput.toUnit = "C" /\ f = 32) => result = 0
            /\ (tempInput.toUnit = "C" /\ f = 72) => result = 22
            /\ (tempInput.toUnit = "C" /\ f = -4) => result = -20

C10_Witness ==
    /\ tempInput = [fahrenheit |-> -4, toUnit |-> "C"]
    /\ tempOutput = <<-20>>

----------------------------------------------------------------------------
(* Claims about the presenter *)

\* The temperature of the stored weather, as the gateway sent it.
StoredTemperature == weather.current_weather.temperature

\* C11: the display applies the selected unit to the stored Fahrenheit
\* temperature: with unit C it shows convertTemp(t, 'C') followed by the
\* degree sign and C (72 gives 22 degrees C), with unit F it shows round(t)
\* followed by the degree sign and F.
C11_DisplayAppliesUnit ==
    weather # null =>
        /\ Screen.display.temperature =
               ToString(convertTemp(StoredTemperature, temperatureUnit))
                 \o Degree \o temperatureUnit
        /\ (StoredTemperature = 72 /\ temperatureUnit = "C") =>
               Screen.display.temperature = "22" \o Degree \o "C"

\* The icon table of the documentation, range by range.
DocumentedIcon(code) ==
    CASE code \in {0, 1} -> "sun"
      [] code = 2 -> "sun behind cloud"
      [] code = 3 -> "cloud"
      [] code \in {45, 48} -> "fog"
      [] code \in 51..67 -> "cloud with rain"
      [] code \in 71..86 -> "snowflake"
      [] code \in 95..99 -> "cloud with lightning and rain"
      [] OTHER -> "sun behind small cloud"

DefaultIconCodes ==
    {c \in Codes : \/ c < 0
                   \/ c \in 4..44
                   \/ c \in {46, 47, 49, 50}
                   \/ c \in 68..70
                   \/ c \in 87..94
                   \/ c >= 100}

CoordFetches == {f \in 1..Len(fetches) : fetches[f].path = "coords"}

SanFrancisco ==
    [latitude |-> Normalize(377749, 4), longitude |-> Normalize(-1224194, 4)]

\* C13: once the geolocation request is denied or fails there is exactly one
\* coordinate fetch, for (37.7749, -122.4194); once it succeeds there is
\* exactly one, for the device's coordinates; before either outcome there is
\* none, and every other fetch is a city fetch made by a search of a
\* non-blank text.
C13_OneFetchPerGeolocationOutcome ==
    /\ geolocation.status = "denied" =>
          \E f \in CoordFetches :
              CoordFetches = {f} /\ fetches[f].params = SanFrancisco
    /\ geolocation.status = "granted" =>
          \E f \in CoordFetches :
              CoordFetches = {f} /\ fetches[f].params = geolocation.coords
    /\ geolocation.status \notin {"denied", "granted"} => CoordFetches = {}
    /\ \A f \in 1..Len(fetches) :
          f \notin CoordFetches =>
              /\ fetches[f].path = "city"
              /\ \E i \in 1..Len(fetches[f].city) : fetches[f].city[i] # " "

C13_Witness ==
    /\ geolocation.status = "denied"
    /\ Len(fetches) = 2
    /\ fetches[1].path = "city"
    /\ fetches[2].params = SanFrancisco
    /\ fetches[2].state = "fulfilled"

\* C14: after a geolocation denial the error state holds 'Could not get your
\* location. Using default location.' once the denial callback has run and
\* the default fetch has started, and still after that fetch succeeded.
C14_DenialMessageShown ==
    ( /\ geolocation.status = "denied"
      /\ Len(fetches) = 1
      /\ fetches[1].state \in {"pending", "fulfilled"} ) =>
        error = Str("Could not get your location. Using default location.")

GatewayErrorStrings ==
    {"Missing latitude or longitude parameters", "City not found",
     "Failed to fetch weather data", "Network Error",
     "Request failed with status code 404"}

\* C16: a coordinate fetch that fails, whatever its status, sets the error to
\* 'Failed to fetch weather data. Please try again.'; a city fetch that
\* fails sets it to 'City not found. Please try another search.'; the error
\* never holds one of the gateway's own error or details strings.
C16_FixedFailureMessages ==
    /\ [][\A f \in 1..Len(fetches) :
            (fetches[f].state = "pending" /\ fetches'[f].state = "rejected") =>
                error' = Str(IF fetches[f].path = "coords"
                             THEN "Failed to fetch weather data. Please try again."
                             ELSE "City not found. Please try another search.")]_vars
    /\ [](error # null => error.v \notin GatewayErrorStrings)

C16_Witness ==
    \E f \in 1..Len(fetches) :
        /\ fetches[f].path = "city"
        /\ fetches[f].state = "rejected"
        /\ fetches[f].outcome.cause = "status"
        /\ fetches[f].outcome.response.status = 500
        /\ error = Str("City not found. Please try another search.")

\* A text that is empty or holds only whitespace.
Blank(s) == \A i \in 1..Len(s) : s[i] = " "

\* C17: submitting the search form with an empty or whitespace-only input
\* calls onSearch not at all and leaves the input as it is; with any other
\* input it calls onSearch exactly once, with the text exactly as typed
\* (not trimmed), and then clears the input to the empty string.
C17_SubmitPassesInputAsTyped ==
    [][/\ fetches' # fetches =>
             /\ ~Blank(searchTerm)
             /\ Len(fetches') = Len(fetches) + 1
             /\ SubSeq(fetches', 1, Len(fetches)) = fetches
             /\ fetches'[Len(fetches')].path = "city"
             /\ fetches'[Len(fetches')].city = searchTerm
             /\ fetches'[Len(fetches')].state = "pending"
             /\ searchTerm' = <<>>
       /\ (handleSubmit /\ Blank(searchTerm)) =>
             UNCHANGED <<searchTerm, fetches>>
       /\ (handleSubmit /\ ~Blank(searchTerm)) =>
             Len(fetches') = Len(fetches) + 1]_vars

C17_Witness ==
    /\ searchTerm = <<>>
    /\ Len(fetches) = 1
    /\ fetches[1].city = <<" ", "a">>

\* The forecast calls the gateway has issued for request r.
ForecastCalls(r) ==
    {i \in 1..Len(calls[r]) : calls[r][i].url = ForecastUrl}

\* C18: the unit starts as F; a toggle flips it between F and C, so two
\* toggles restore it; a toggle changes no other presenter state and issues
\* no request; every forecast call of the gateway asks for fahrenheit and
\* mph, so the stored temperature is the forecast's Fahrenheit value
\* whatever the selected unit.
C18_ToggleIsDisplayOnly ==
    /\ temperatureUnit = "F"
    /\ [][temperatureUnit' # temperatureUnit =>
             /\ temperatureUnit \in {"F", "C"}
             /\ temperatureUnit' = (IF temperatureUnit = "F" THEN "C" ELSE "F")
             /\ UNCHANGED <<weather, location, loading, error, fetches,
                            searchTerm, gatewayVars>>]_vars
    /\ [](\A r \in Reqs : \A i \in ForecastCalls(r) :
             /\ calls[r][i].params.temperature_unit = "fahrenheit"
             /\ calls[r][i].params.wind_speed_unit = "mph")
    /\ [](weather # null =>
             \E f \in 1..Len(fetches) :
                 /\ fetches[f].state = "fulfilled"
                 /\ weather = responses[f][1].body
                 /\ ForecastCalls(f) # {}
                 /\ weather.current_weather.temperature =
                        LastAnswer(f).data.current.temperature_2m)

C18_Witness ==
    /\ temperatureUnit = "C"
    /\ weather # null
    /\ weather.current_weather.temperature = 60
    /\ \E f \in 1..Len(fetches) : fetches[f].state = "pending"

----------------------------------------------------------------------------
(* Claims about the gateway's call chain *)

\* C19: a gateway request makes one sequential chain of external calls and
\* never retries: a coordinate request that passes validation makes exactly
\* one forecast call; a city request makes exactly one geocoding call, asking
\* for one result, and exactly one forecast call only after that call
\* returned at least one result; a call is issued only when every earlier
\* one has been answered, and none after one has failed.
C19_OneSequentialCallChain ==
    \A r \in Reqs :
        /\ Len(replies[r]) <= Len(calls[r])
        /\ Len(calls[r]) <= Len(replies[r]) + 1
        /\ \A i \in 1..Len(replies[r]) : Failed(r, i) => Len(calls[r]) = i
        /\ \A i, j \in 1..Len(calls[r]) :
              calls[r][i].url = calls[r][j].url => i = j
        /\ requests[r].pc = "idle" => calls[r] = <<>>
        /\ requests[r].pc # "idle" =>
              CASE requests[r].endpoint = "health" -> calls[r] = <<>>
                [] requests[r].endpoint = "coords" ->
                     IF \/ AbsentOrEmpty(requests[r].query, "latitude")
                        \/ AbsentOrEmpty(requests[r].query, "longitude")
                     THEN calls[r] = <<>>
                     ELSE /\ Len(calls[r]) = 1
                          /\ calls[r][1].url = ForecastUrl
                [] requests[r].endpoint = "city" ->
                     /\ Len(calls[r]) \in {1, 2}
                     /\ calls[r][1].url = GeocodingUrl
                     /\ calls[r][1].params.name = requests[r].city
                     /\ calls[r][1].params.count = 1
                     /\ Len(calls[r]) = 2 <=>
                           /\ Len(replies[r]) >= 1
                           /\ replies[r][1].kind = "resolved"
                           /\ "results" \in DOMAIN replies[r][1].data
                           /\ Len(replies[r][1].data.results) >= 1
                     /\ Len(calls[r]) = 2 => calls[r][2].url = ForecastUrl

C19_Witness ==
    \E r \in Reqs :
        /\ requests[r].pc = "done"
        /\ requests[r].endpoint = "city"
        /\ Len(calls[r]) = 2
        /\ Len(replies[r]) = 2
        /\ replies[r][2].kind = "rejected"

\* The statuses each endpoint can answer with.
StatusesOf(endpoint) ==
    CASE endpoint = "health" -> {200}
      [] endpoint = "coords" -> {200, 400, 500}
      [] endpoint = "city" -> {200, 404, 500}

\* C20: provided every external call eventually returns or fails, every
\* gateway request eventually gets exactly one response and never two; a
\* coordinate request is answered 200, 400 or 500 and a city request 200,
\* 404 or 500, so 400 comes only from the coordinate path and 404 only from
\* the city path.
C20_EveryRequestAnsweredOnce ==
    /\ [](\A r \in Reqs :
             /\ Len(responses[r]) <= 1
             /\ requests[r].pc = "done" => Len(responses[r]) = 1
             /\ responses[r] # <<>> =>
                   /\ requests[r].pc = "done"
                   /\ responses[r][1].status \in StatusesOf(requests[r].endpoint)
                   /\ responses[r][1].status = 400 => requests[r].endpoint = "coords"
                   /\ responses[r][1].status = 404 => requests[r].endpoint = "city")
    /\ \A r \in Reqs :
          (requests[r].pc # "idle") ~> (Len(responses[r]) = 1)

C20_Witness ==
    /\ requests[1].pc = "done"
    /\ requests[1].endpoint = "coords"
    /\ responses[1][1].status = 400
    /\ requests[2].pc = "done"
    /\ requests[2].endpoint = "city"
    /\ Len(replies[2]) = 1
    /\ responses[2][1].status = 404

----------------------------------------------------------------------------
(* Claims about overlapping fetches *)

Pending == {f \in 1..Len(fetches) : fetches[f].state = "pending"}
Fulfilled == {f \in 1..Len(fetches) : fetches[f].state = "fulfilled"}
Rejected == {f \in 1..Len(fetches) : fetches[f].state = "rejected"}

\* The fetch of set S (not empty, all settled) whose outcome arrived last.
LastSettled(S) ==
    CHOOSE f \in S : \A g \in S : fetches[g].settled <= fetches[f].settled

\* C21: responses are applied in arrival order, whatever the issue order:
\* the stored weather and location are those of the successful response
\* that arrived last (null while none has arrived), so a first fetch whose
\* success arrives after a second fetch's success overwrites the newer one.
C21_LastArrivalWins ==
    IF Fulfilled = {}
    THEN weather = null /\ location = null
    ELSE /\ weather = fetches[LastSettled(Fulfilled)].outcome.data
         /\ location = fetches[LastSettled(Fulfilled)].outcome.data.location

C21_Witness ==
    /\ Len(fetches) = 2
    /\ Fulfilled = {1, 2}
    /\ fetches[2].started < fetches[1].settled
    /\ fetches[2].settled < fetches[1].settled
    /\ weather = fetches[1].outcome.data
    /\ weather # fetches[2].outcome.data

\* C23: in every reachable state, if at least one fetch has been started and
\* has not yet completed, loading is true, also when several fetches
\* overlap and only some of them have completed.
C23_LoadingWhilePending == Pending # {} => loading = TRUE

\* C24: provided every call is eventually answered or fails, every started
\* fetch eventually completes and its completion, success or failure, sets
\* loading to false; once no fetch is in flight, loading is false.
C24_LoadingAlwaysStops ==
    /\ [][\A f \in Pending : f \notin Pending' => loading' = FALSE]_vars
    /\ [](Pending = {} => loading = FALSE)
    /\ \A f \in 1..MaxFetch : (f \in Pending) ~> (f \notin Pending)
    /\ (loading = TRUE) ~> (loading = FALSE)

C24_Witness ==
    /\ Len(fetches) = 2
    /\ Fulfilled = {1}
    /\ Rejected = {2}
    /\ loading = FALSE

----------------------------------------------------------------------------
(* Claims about validation and the two classifiers *)

\* C25: a coordinate request whose latitude and longitude are both
\* non-empty, the value 0 and values outside [-90, 90] and [-180, 180]
\* included, is never answered 400, and the forecast call carries exactly
\* the two parameter values received.
C25_PresenceValidationOnly ==
    \A r \in Reqs :
        ( /\ requests[r].pc # "idle"
          /\ requests[r].endpoint = "coords"
          /\ ~AbsentOrEmpty(requests[r].query, "latitude")
          /\ ~AbsentOrEmpty(requests[r].query, "longitude") )
        => /\ \A i \in 1..Len(responses[r]) : responses[r][i].status # 400
           /\ Len(calls[r]) = 1
           /\ calls[r][1].url = ForecastUrl
           /\ calls[r][1].params.latitude = requests[r].query.latitude
           /\ calls[r][1].params.longitude = requests[r].query.longitude

C25_Witness ==
    /\ requests[1].pc = "done"
    /\ requests[1].query = [latitude |-> <<"9", "1">>, longitude |-> <<"0">>]
    /\ calls[1][1].params.latitude = <<"9", "1">>
    /\ calls[1][1].params.longitude = <<"0">>
    /\ responses[1][1].status = 200

\* What the two classifiers made of the stored weather's code: the
\* description the gateway sent and the icon the display shows.
StoredCode == weather.current_weather.weather_code
DescriptionIsFallback == weather.current_weather.description = "Unknown"
IconIsFallback == Screen.display.icon = "sun behind small cloud"

\* C26: for code 67 the gateway's description is 'Unknown' while the
\* presenter's icon is the rain icon.
C26_Code67UnknownButRain ==
    (weather # null /\ StoredCode = 67) =>
        /\ weather.current_weather.description = "Unknown"
        /\ Screen.display.icon = "cloud with rain"

C26_Witness ==
    /\ weather # null
    /\ StoredCode = 67
    /\ DescriptionIsFallback
    /\ ~IconIsFallback
    /\ Screen.display.icon = "cloud with rain"

\* C27, as stated: on every code from 87 to 94, as on 67, exactly one of the
\* two classifiers returns its fallback ('Unknown', the default icon) while
\* the other returns a specific class.
C27_DisagreeOn87To94 ==
    (weather # null /\ StoredCode \in (87..94) \cup {67}) =>
        DescriptionIsFallback # IconIsFallback

\* The codes inside an icon range that the description table lacks.
UndescribedInIconRange ==
    {52, 54} \cup (56..60) \cup {62, 64, 66, 67, 72, 74} \cup (76..79)
      \cup {83, 84, 97, 98}

\* C27, amended: on every code from 87 to 94 the two classifiers agree, both
\* returning their fallback; exactly one returns its fallback on 67 and on
\* the other codes inside an icon range that the description table lacks,
\* and there it is always the description that is 'Unknown'.
C27_BothFallBackOn87To94 ==
    weather # null =>
        /\ StoredCode \in 87..94 => (DescriptionIsFallback /\ IconIsFallback)
        /\ (DescriptionIsFallback # IconIsFallback) <=>
               StoredCode \in UndescribedInIconRange
        /\ StoredCode \in UndescribedInIconRange =>
               (DescriptionIsFallback /\ ~IconIsFallback)

C27_Witness ==
    /\ weather # null
    /\ StoredCode = 90
    /\ DescriptionIsFallback
    /\ IconIsFallback

\* C28: every code the gateway describes gets a specific icon; the rain
\* showers 80, 81 and 82 fall in the range 71..86 and get the snow icon.
C28_DescribedCodesHaveIcons ==
    weather # null =>
        /\ ~DescriptionIsFallback => ~IconIsFallback
        /\ StoredCode \in 80..82 =>
              /\ Screen.display.icon = "snowflake"
              /\ weather.current_weather.description \in
                    {"Slight rain showers", "Moderate rain showers",
                     "Violent rain showers"}

C28_Witness ==
    /\ weather # null
    /\ StoredCode = 81
    /\ weather.current_weather.description = "Moderate rain showers"
    /\ Screen.display.icon = "snowflake"

----------------------------------------------------------------------------
(* Claims about what a fetch leaves alone *)

Settled == Fulfilled \cup Rejected

\* The weather and location stored just before fetch event n: those of the
\* last success that arrived before it.
FulfilledBefore(n) == {g \in Fulfilled : fetches[g].settled < n}
WeatherBefore(n) ==
    IF FulfilledBefore(n) = {} THEN null
    ELSE fetches[LastSettled(FulfilledBefore(n))].outcome.data
LocationBefore(n) ==
    IF FulfilledBefore(n) = {} THEN null
    ELSE fetches[LastSettled(FulfilledBefore(n))].outcome.data.location

\* The fetch whose failure was the last outcome to arrive.
JustFailed(f) == f \in Rejected /\ f = LastSettled(Settled)

\* C29, as stated: after any fetch fails, weather and location are exactly
\* what they were before that fetch started.
C29_FailureRestoresPreStart ==
    \A f \in 1..Len(fetches) :
        JustFailed(f) =>
            /\ weather = WeatherBefore(fetches[f].started)
            /\ location = LocationBefore(fetches[f].started)

\* No other fetch succeeded while fetch f was in flight.
NoSuccessDuring(f) ==
    \A g \in Fulfilled :
        ~(fetches[f].started < fetches[g].settled
            /\ fetches[g].settled < fetches[f].settled)

\* C29, amended: the step in which a fetch fails leaves weather, location
\* and the unit as they were just before it, so after the failure they are
\* what they were before the fetch started unless another fetch succeeded
\* while it was in flight; the step that starts a fetch sets loading to
\* true and error to null and leaves weather, location and the unit alone.
C29_FailureChangesOnlyErrorAndLoading ==
    /\ [][/\ (\E f \in Pending : f \in Rejected') =>
                UNCHANGED <<weather, location, temperatureUnit>>
          /\ (Len(fetches') > Len(fetches)) =>
                (/\ loading' = TRUE
                 /\ error' = null
                 /\ UNCHANGED <<weather, location, temperatureUnit>>)]_vars
    /\ [](\A f \in 1..Len(fetches) :
             (JustFailed(f) /\ NoSuccessDuring(f)) =>
                 /\ weather = WeatherBefore(fetches[f].started)
                 /\ location = LocationBefore(fetches[f].started))

C29_Witness ==
    /\ Len(fetches) = 2
    /\ Fulfilled = {1}
    /\ JustFailed(2)
    /\ fetches[1].settled < fetches[2].started
    /\ weather = fetches[1].outcome.data
    /\ error # null
    /\ loading = FALSE

\* The fixed message of the path of fetch f.
MessageOf(f) ==
    IF fetches[f].path = "coords"
    THEN "Failed to fetch weather data. Please try again."
    ELSE "City not found. Please try another search."

\* Fetch f ran alone: every other fetch had settled before it started.
RanAlone(f) ==
    \A g \in 1..Len(fetches) :
        (g # f) => (g \in Settled /\ fetches[g].settled < fetches[f].started)

\* Fetch a failed while fetch b was in flight, b then succeeded, and no
\* other failure and no start of a fetch came after a's failure.
FailedDuring(a, b) ==
    /\ a \in Rejected
    /\ b \in Fulfilled
    /\ fetches[b].started < fetches[a].settled
    /\ fetches[a].settled < fetches[b].settled
    /\ \A g \in Rejected : fetches[g].settled <= fetches[a].settled
    /\ \A g \in 1..Len(fetches) : fetches[g].started < fetches[a].settled
    /\ b = LastSettled(Fulfilled)

\* C30: a success never clears the error.  After a successful fetch that
\* overlapped no other, error is null and loading is false; but when fetch
\* A fails after fetch B has started and B then succeeds, the state shows
\* B's weather together with A's message, until the next fetch is started.
C30_SuccessKeepsError ==
    /\ [][(\E f \in Pending : f \in Fulfilled') => UNCHANGED error]_vars
    /\ [](\A f \in Fulfilled :
             (RanAlone(f) /\ f = LastSettled(Settled)) =>
                 (error = null /\ loading = FALSE))
    /\ [](\A a, b \in 1..Len(fetches) :
             FailedDuring(a, b) =>
                 /\ weather = fetches[b].outcome.data
                 /\ error = Str(MessageOf(a)))

C30_Witness ==
    /\ Len(fetches) = 2
    /\ FailedDuring(1, 2)
    /\ weather = fetches[2].outcome.data
    /\ error = Str("Failed to fetch weather data. Please try again.")
    /\ loading = FALSE

----------------------------------------------------------------------------
(* Claims about concurrent gateway requests *)

\* What request r was sent with: its endpoint and its own parameters.
OwnInput(r) ==
    IF requests[r].endpoint = "coords"
    THEN [endpoint |-> "coords", query |-> requests[r].query]
    ELSE IF requests[r].endpoint = "city"
    THEN [endpoint |-> "city", city |-> requests[r].city]
    ELSE [endpoint |-> "health"]

\* Requests r and s were sent with the same parameters and their external
\* calls got the same answers so far.
SameInputsAndAnswers(r, s) ==
    /\ requests[r].pc # "idle"
    /\ requests[s].pc # "idle"
    /\ OwnInput(r) = OwnInput(s)
    /\ replies[r] = replies[s]

\* A step of the gateway touches the state of one request only.
TouchesOneRequest ==
    \E r \in Reqs :
        \A s \in Reqs \ {r} :
            /\ requests'[s] = requests[s]
            /\ calls'[s] = calls[s]
            /\ replies'[s] = replies[s]
            /\ responses'[s] = responses[s]

\* C22: concurrent gateway requests are independent.  Every step belongs to
\* one request and leaves the others' state alone, and under every
\* interleaving two requests with the same parameters whose external calls
\* got the same answers have issued the same calls, stand at the same point
\* of their handler and have sent the same response, whatever the requests
\* around them did; so each gets the response it would get alone.
C22_RequestsIndependent ==
    /\ [][TouchesOneRequest]_vars
    /\ [](\A r, s \in Reqs :
             SameInputsAndAnswers(r, s) =>
                 /\ responses[r] = responses[s]
                 /\ calls[r] = calls[s]
                 /\ requests[r] = requests[s])

C22_Witness ==
    /\ \A r \in {1, 2, 3} : requests[r].pc # "idle" /\ requests[r].endpoint = "coords"
    /\ requests[1].pc = "done"
    /\ requests[2].pc = "done"
    /\ SameInputsAndAnswers(1, 2)
    /\ responses[1][1].status = 200
    /\ responses[2] = responses[1]
    /\ requests[3].query = requests[1].query
    /\ requests[3].pc = "done"
    /\ replies[3] # replies[1]
    /\ responses[3] # responses[1]

====
